---- MODULE Spec2Model ----
(***************************************************************************)
(* Model of ulauncher-vscode-recent (src/main.py): the fuzzy scorer        *)
(* command_score, the recents loader and its process-wide TTL cache        *)
(* (Code.get_recents), the ranker (CodeExtension.get_ext_result_items)     *)
(* and the four event listeners.                                           *)
(*                                                                         *)
(* Strings are sequences of one-character strings; indices into them are   *)
(* 0-based as in the Python source (see At).                               *)
(*                                                                         *)
(* Scores.  Every value command_score produces is 0 or a product of the    *)
(* constants 1, 0.99, 0.9, 0.8, 0.17, 0.999^k, 0.9999 (and 1.02 in the     *)
(* ranker).  A positive score x is kept as the integer                     *)
(*     ONE + round(10^7 * ln x)                                            *)
(* and the score 0 as the integer 0, so that multiplication is Mul below,  *)
(* and  >  and  max  on scores are  >  and  max  on the integers.  This is  *)
(* exact real arithmetic: the last-bit rounding of Python floats is not    *)
(* modelled.                                                               *)
(*                                                                         *)
(* None is <<>> and a value v that may be None is <<v>>.                   *)
(***************************************************************************)
EXTENDS Integers, Sequences, FiniteSets, TLC

(***************************************************************************)
(* Bounds of the model.                                                    *)
(***************************************************************************)
MaxStrLen == 3          \* longest candidate string drawn in SpecScore
MaxAbbrLen == 2         \* longest query string drawn in SpecScore
MaxEntries == 17        \* length of the longest entries array a store holds
StartTime == 1000       \* time.time() when the extension starts
Horizon == 60           \* seconds of clock the model follows
MaxBatch == 2           \* longest batch of raw records drawn in SpecParse
MaxRecents == 2         \* longest list of entries drawn in SpecRank
NumCallers == 2         \* callers of get_recents running at once in SpecConc

(***************************************************************************)
(* Characters.                                                             *)
(***************************************************************************)
StrChars == {"a", "b", "A", " ", "/"}
AbbrChars == {"a", "b", "A", " "}

\* str.lower() on one character
LowerChar(c) ==
    CASE c = "A" -> "a"
      [] c = "B" -> "b"
      [] OTHER -> c

\* str.lower()
Lower(s) == [i \in 1..Len(s) |-> LowerChar(s[i])]

\* s[i] with the source's 0-based index
At(s, i) == s[i + 1]

\* IS_GAP_REGEXP = [\\\/_+.#"@\[\(\{&]
IS_GAP_REGEXP(c) ==
    c \in {"\\", "/", "_", "+", ".", "#", "\"", "@", "[", "(", "{", "&"}

\* IS_SPACE_REGEXP = [\s-]
IS_SPACE_REGEXP(c) == c \in {" ", "\t", "\n", "\r", "-"}

\* " ".join(aliases)
RECURSIVE JoinSpace(_)
JoinSpace(aliases) ==
    IF Len(aliases) = 0 THEN <<>>
    ELSE IF Len(aliases) = 1 THEN aliases[1]
    ELSE aliases[1] \o <<" ">> \o JoinSpace(Tail(aliases))

\* str.find(ch, start): least 0-based index >= start holding ch, else -1
RECURSIVE find(_, _, _)
find(s, ch, start) ==
    IF start >= Len(s) THEN -1
    ELSE IF At(s, start) = ch THEN start
    ELSE find(s, ch, start + 1)

(***************************************************************************)
(* Score arithmetic.                                                       *)
(***************************************************************************)
ONE == 500000000
\* a * b on scores
Mul(a, b) == IF a = 0 \/ b = 0 THEN 0 ELSE a + b - ONE

SCORE_CONTINUE_MATCH == ONE                  \* 1
SCORE_SPACE_WORD_JUMP == ONE - 1053605       \* 0.9
SCORE_NON_SPACE_WORD_JUMP == ONE - 2231436   \* 0.8
SCORE_CHARACTER_JUMP == ONE - 17719568       \* 0.17
PENALTY_CASE_MISMATCH == ONE - 1000          \* 0.9999
SCORE_QUERY_CONSUMED == ONE - 100503         \* 0.99, the literal of line 62
\* PENALTY_SKIPPED ** d, PENALTY_SKIPPED = 0.999
PENALTY_SKIPPED_POW(d) == ONE - d * 10005

\* the value a raised IndexError is reported as
IndexError == -1

(***************************************************************************)
(* command_score.  The memo dictionary of score() only avoids recomputing  *)
(* score(string_index, abbr_index), whose value is a function of the two   *)
(* indices, so it is not modelled.                                         *)
(***************************************************************************)
\* the factor of one occurrence (lines 73-85)
JumpFactor(lower_string, string_index, index) ==
    IF index = string_index THEN SCORE_CONTINUE_MATCH
    ELSE IF IS_SPACE_REGEXP(At(lower_string, index - 1)) THEN SCORE_SPACE_WORD_JUMP
    ELSE IF IS_GAP_REGEXP(At(lower_string, index - 1)) THEN SCORE_NON_SPACE_WORD_JUMP
    ELSE IF string_index > 0
         THEN Mul(SCORE_CHARACTER_JUMP, PENALTY_SKIPPED_POW(index - string_index))
         ELSE SCORE_CHARACTER_JUMP

\* string[index] of line 88: is the index inside the original string
IndexInString(string, index) == index < Len(string)

RECURSIVE score(_, _, _, _, _, _), scan(_, _, _, _, _, _, _, _)
score(string, abbreviation, lower_string, lower_abbreviation, string_index, abbr_index) ==
    IF abbr_index = Len(abbreviation)
    THEN (IF string_index = Len(string) THEN SCORE_CONTINUE_MATCH
          ELSE SCORE_QUERY_CONSUMED)
    ELSE scan(string, abbreviation, lower_string, lower_abbreviation, string_index,
              abbr_index,
              find(lower_string, At(lower_abbreviation, abbr_index), string_index), 0)

\* the while loop of lines 70-96, entered with the next occurrence index
scan(string, abbreviation, lower_string, lower_abbreviation, string_index, abbr_index, index, high_score) ==
    IF index = -1 THEN high_score
    ELSE LET sub == score(string, abbreviation, lower_string, lower_abbreviation,
                          index + 1, abbr_index + 1)
         IN
         IF sub = IndexError THEN IndexError
         ELSE IF ~IndexInString(string, index) THEN IndexError
         ELSE LET jumped == Mul(sub, JumpFactor(lower_string, string_index, index))
                  temp_score ==
                      IF At(string, index) # At(abbreviation, abbr_index)
                      THEN Mul(jumped, PENALTY_CASE_MISMATCH)
                      ELSE jumped
                  best == IF temp_score > high_score THEN temp_score ELSE high_score
              IN scan(string, abbreviation, lower_string, lower_abbreviation,
                      string_index, abbr_index,
                      find(lower_string, At(lower_abbreviation, abbr_index), index + 1),
                      best)

command_score(string, abbreviation, aliases) ==
    score(string, abbreviation,
          Lower(string \o <<" ">> \o JoinSpace(aliases)), Lower(abbreviation), 0, 0)

(***************************************************************************)
(* Recents loader: raw records, normalisation and the type filter.         *)
(***************************************************************************)
None == <<>>
Some(v) == <<v>>

\* str.split(","), the string given as a sequence of atoms, "," one of them
RECURSIVE SplitComma(_)
SplitComma(s) ==
    LET first == find(s, ",", 0)
    IN IF first = -1 THEN <<s>>
       ELSE <<SubSeq(s, 1, first)>> \o SplitComma(SubSeq(s, first + 2, Len(s)))

\* x in list
InList(x, list) == \E i \in 1..Len(list) : list[i] = x

\* uri.split("/")[-1]
RECURSIVE LastSegment(_)
LastSegment(uri) ==
    IF find(uri, "/", 0) = -1 THEN uri
    ELSE LastSegment(SubSeq(uri, find(uri, "/", 0) + 2, Len(uri)))

\* key in path
Has(path, key) == key \in DOMAIN path

\* what one raw record contributes (lines 243-271): an entry, nothing for an
\* unrecognised record, or the KeyError of path["workspace"]["configPath"]
Skipped == [skip |-> TRUE]
KeyError == [error |-> "KeyError"]
MakeEntry(path, uri, icon, option, entry_type) ==
    [uri |-> uri,
     label |-> IF Has(path, "label") THEN path.label ELSE LastSegment(uri),
     icon |-> icon, option |-> option, type |-> entry_type]
ParseOne(path) ==
    IF Has(path, "folderUri")
    THEN MakeEntry(path, path.folderUri, "icon", "--folder-uri", "folder")
    ELSE IF Has(path, "fileUri")
    THEN MakeEntry(path, path.fileUri, "file", "--file-uri", "file")
    ELSE IF Has(path, "workspace")
    THEN (IF Has(path.workspace, "configPath")
          THEN MakeEntry(path, path.workspace.configPath, "workspace", "--file-uri", "workspace")
          ELSE KeyError)
    ELSE Skipped

\* the result of a call: a returned value, or a raised exception
Return(v) == [raised |-> FALSE, value |-> v]
Raise == [raised |-> TRUE, value |-> <<>>]

\* the for loop of lines 241-271
RECURSIVE Normalize(_, _)
Normalize(entries, recents) ==
    IF Len(entries) = 0 THEN Return(recents)
    ELSE LET one == ParseOne(Head(entries))
         IN IF one = KeyError THEN Raise
            ELSE IF one = Skipped THEN Normalize(Tail(entries), recents)
            ELSE Normalize(Tail(entries), Append(recents, one))

\* the filter of line 276; recent["type"] in None is a TypeError
TypeFilter(recents, include_types) ==
    IF Len(recents) = 0 THEN Return(<<>>)
    ELSE IF include_types = None THEN Raise
    ELSE Return(SelectSeq(recents, LAMBDA r : InList(<<r.type>>, include_types[1])))

parse_entry_paths(entries, include_types) ==
    LET n == Normalize(entries, <<>>)
    IN IF n.raised THEN Raise ELSE TypeFilter(n.value, include_types)

(***************************************************************************)
(* The two stores.  A store is absent, or present and unreadable (the      *)
(* sqlite3/json read or a key lookup raises), or present and holding an    *)
(* entries array.                                                          *)
(***************************************************************************)
Absent == [exists |-> FALSE, readable |-> FALSE, entries |-> <<>>]
Unreadable == [exists |-> TRUE, readable |-> FALSE, entries |-> <<>>]
Holding(entries) == [exists |-> TRUE, readable |-> TRUE, entries |-> entries]

get_recents_global_state(primary, include_types) ==
    IF ~primary.readable THEN Raise
    ELSE parse_entry_paths(primary.entries, include_types)

get_recents_legacy(legacy, include_types) ==
    IF ~legacy.readable THEN Raise
    ELSE parse_entry_paths(legacy.entries, include_types)

(***************************************************************************)
(* Code.get_recents: the TTL cache in front of the loader.                 *)
(***************************************************************************)
_cache_duration == 60

\* is_installed answering yes for an unresolved installation
is_installed_Always(installed_path) == TRUE

\* bool(self.installed_path)
is_installed(installed_path) == installed_path # None

\* CacheValid with the age compared by <= : a cache exactly 60 s old is served
CacheValid_AtExpiry(cached, timestamp, current_time) ==
    /\ cached # None
    /\ Len(cached[1]) > 0
    /\ current_time - timestamp <= _cache_duration

\* the test of lines 180-183; a list is true when it is not empty
CacheValid(cached, timestamp, current_time) ==
    /\ cached # None
    /\ Len(cached[1]) > 0
    /\ current_time - timestamp < _cache_duration

\* Load with the error of the primary read raised even when storage.json exists
Load_PrimaryErrorFatal(installed_path, primary, legacy, include_types) ==
    IF installed_path = None THEN [raised |-> TRUE, value |-> <<>>, reads |-> <<>>]
    ELSE
    LET p == get_recents_global_state(primary, include_types)
        reraised == primary.exists /\ p.raised
        recents == IF primary.exists /\ ~p.raised THEN p.value ELSE <<>>
        fallback == Len(recents) = 0 /\ legacy.exists
        l == get_recents_legacy(legacy, include_types)
        reads1 == IF primary.exists THEN <<"global_state">> ELSE <<>>
    IN IF reraised THEN [raised |-> TRUE, value |-> <<>>, reads |-> reads1]
       ELSE IF ~fallback THEN [raised |-> FALSE, value |-> recents, reads |-> reads1]
       ELSE [raised |-> l.raised, value |-> l.value, reads |-> Append(reads1, "legacy")]

\* lines 188-204: the load.  reads lists the store readers invoked, in order.
\* On an unresolved installation global_state_db is None and line 193 raises.
Load(installed_path, primary, legacy, include_types) ==
    IF installed_path = None THEN [raised |-> TRUE, value |-> <<>>, reads |-> <<>>]
    ELSE
    LET p == get_recents_global_state(primary, include_types)
        reraised == primary.exists /\ p.raised /\ ~legacy.exists
        recents == IF primary.exists /\ ~p.raised THEN p.value ELSE <<>>
        fallback == Len(recents) = 0 /\ legacy.exists
        l == get_recents_legacy(legacy, include_types)
        reads1 == IF primary.exists THEN <<"global_state">> ELSE <<>>
    IN IF reraised THEN [raised |-> TRUE, value |-> <<>>, reads |-> reads1]
       ELSE IF ~fallback THEN [raised |-> FALSE, value |-> recents, reads |-> reads1]
       ELSE [raised |-> l.raised, value |-> l.value, reads |-> Append(reads1, "legacy")]

\* CacheAfterLoad with the cache emptied when the load raises
CacheAfterLoad_ClearsOnError(load, cached, timestamp, current_time, took) ==
    IF load.raised THEN [recents |-> Some(<<>>), timestamp |-> current_time + took]
    ELSE [recents |-> Some(load.value), timestamp |-> current_time + took]

\* the cache fields after a load that took took seconds (lines 206-208)
CacheAfterLoad(load, cached, timestamp, current_time, took) ==
    IF load.raised THEN [recents |-> cached, timestamp |-> timestamp]
    ELSE [recents |-> Some(load.value), timestamp |-> current_time + took]

\* the whole call: what it returns or that it raises, whether the load ran,
\* the readers it invoked, and the cache fields it leaves
get_recents(installed_path, primary, legacy, include_types, cached, timestamp, current_time, took) ==
    IF CacheValid(cached, timestamp, current_time)
    THEN [raised |-> FALSE, value |-> cached[1], loaded |-> FALSE, reads |-> <<>>,
          cache |-> [recents |-> cached, timestamp |-> timestamp]]
    ELSE LET load == Load(installed_path, primary, legacy, include_types)
         IN [raised |-> load.raised, value |-> load.value, loaded |-> TRUE,
             reads |-> load.reads,
             cache |-> CacheAfterLoad(load, cached, timestamp, current_time, took)]

(***************************************************************************)
(* CodeExtension.get_ext_result_items: the ranker.                         *)
(***************************************************************************)
PREFER_BOOST == ONE + 198026        \* 1.02
THRESHOLD == ONE - 23025851         \* 0.1
ResultLimit == 15

Max(a, b) == IF a > b THEN a ELSE b

\* BoostedLabelScore with the boost given to every type once a type is preferred
BoostedLabelScore_AnyType(recent, query, prefer_type) ==
    LET label_score == command_score(recent.label, query, <<>>)
    IN IF label_score = IndexError THEN IndexError
       ELSE IF prefer_type # None /\ prefer_type[1] # ""
       THEN Mul(label_score, PREFER_BOOST)
       ELSE label_score

\* lines 333-339: the label score after the preference boost
BoostedLabelScore(recent, query, prefer_type) ==
    LET label_score == command_score(recent.label, query, <<>>)
    IN IF label_score = IndexError THEN IndexError
       ELSE IF prefer_type # None /\ prefer_type[1] # "" /\ recent.type = prefer_type[1]
       THEN Mul(label_score, PREFER_BOOST)
       ELSE label_score

\* AboveThreshold looking at the label score alone
AboveThreshold_LabelOnly(label_score, uri_score) ==
    label_score > THRESHOLD

\* the test of line 343
AboveThreshold(label_score, uri_score) ==
    label_score > THRESHOLD \/ uri_score > THRESHOLD

\* the for loop of lines 332-344: the data list, or that a command_score
\* call raised; scored counts the entries handed to command_score
RECURSIVE Collect(_, _, _, _, _)
Collect(recents, query, prefer_type, data, scored) ==
    IF Len(recents) = 0 THEN [raised |-> FALSE, value |-> data, scored |-> scored]
    ELSE LET recent == Head(recents)
             label_score == BoostedLabelScore(recent, query, prefer_type)
             uri_score == command_score(recent.uri, query, <<>>)
         IN IF label_score = IndexError \/ uri_score = IndexError
            THEN [raised |-> TRUE, value |-> <<>>, scored |-> scored + 1]
            ELSE IF AboveThreshold(label_score, uri_score)
            THEN Collect(Tail(recents), query, prefer_type,
                         Append(data, [recent |-> recent,
                                       score |-> Max(label_score, uri_score)]),
                         scored + 1)
            ELSE Collect(Tail(recents), query, prefer_type, data, scored + 1)

\* InsertDescending putting x ahead of the elements of equal score, as
\* reversing an ascending stable sort would
RECURSIVE InsertDescending_TiesReversed(_, _)
InsertDescending_TiesReversed(sorted, x) ==
    IF Len(sorted) = 0 THEN <<x>>
    ELSE IF Head(sorted).score > x.score
    THEN <<Head(sorted)>> \o InsertDescending_TiesReversed(Tail(sorted), x)
    ELSE <<x>> \o sorted

\* sorted(data, key=score, reverse=True): a stable sort, so x goes behind
\* every element whose score is not smaller
RECURSIVE InsertDescending(_, _)
InsertDescending(sorted, x) ==
    IF Len(sorted) = 0 THEN <<x>>
    ELSE IF Head(sorted).score >= x.score
    THEN <<Head(sorted)>> \o InsertDescending(Tail(sorted), x)
    ELSE <<x>> \o sorted

RECURSIVE SortedDescending(_, _)
SortedDescending(data, sorted) ==
    IF Len(data) = 0 THEN sorted
    ELSE SortedDescending(Tail(data), InsertDescending(sorted, Head(data)))

\* data[:15]
Truncate(data) ==
    SubSeq(data, 1, IF Len(data) < ResultLimit THEN Len(data) ELSE ResultLimit)

\* an ExtensionResultItem: its icon and the entry its on_enter action carries.
\* Its name and description are display strings and are left out.
Item(recent) == [icon |-> recent.icon, on_enter |-> Some(recent)]

\* lines 325-363, from the recents the cache call returned
Rank(recents, query, prefer_type) ==
    LET data == Collect(recents, query, prefer_type, <<>>, 0)
    IN IF data.raised THEN [raised |-> TRUE, value |-> <<>>, scored |-> data.scored]
       ELSE LET top == Truncate(SortedDescending(data.value, <<>>))
            IN [raised |-> FALSE, value |-> [i \in 1..Len(top) |-> Item(top[i].recent)],
                scored |-> data.scored]

\* the whole method: the outcome of its get_recents call (get), how many of
\* the recents it scored, and the items it returns unless it raises
get_ext_result_items(query, installed_path, primary, legacy, include_types, prefer_type, cached, timestamp, current_time, took) ==
    LET lowered == Lower(query)
        get == get_recents(installed_path, primary, legacy, include_types,
                           cached, timestamp, current_time, took)
        ranked == IF get.raised THEN [raised |-> TRUE, value |-> <<>>, scored |-> 0]
                  ELSE Rank(get.value, lowered, prefer_type)
    IN [raised |-> ranked.raised, items |-> ranked.value, get |-> get,
        scored |-> ranked.scored]

(***************************************************************************)
(* Code.open_vscode.                                                       *)
(***************************************************************************)
\* os.environ, by variable name
Environ == {"DISPLAY", "LD_PRELOAD"}

\* str.strip()
RECURSIVE Strip(_)
Strip(s) ==
    IF Len(s) = 0 THEN s
    ELSE IF IS_SPACE_REGEXP(s[1]) /\ s[1] # "-" THEN Strip(Tail(s))
    ELSE IF IS_SPACE_REGEXP(s[Len(s)]) /\ s[Len(s)] # "-" THEN Strip(SubSeq(s, 1, Len(s) - 1))
    ELSE s

\* lines 283-290: the environment handed to the new process
LaunchEnv(excluded_env_vars) ==
    IF excluded_env_vars = None \/ excluded_env_vars = Some(<<>>) THEN Environ
    ELSE {v \in Environ :
            ~\E i \in 1..Len(SplitComma(excluded_env_vars[1])) :
                Strip(SplitComma(excluded_env_vars[1])[i]) = <<v>>}

\* open_vscode handing the label of the entry to the editor
open_vscode_LabelArgument(installed_path, recent, excluded_env_vars) ==
    IF ~is_installed(installed_path) THEN None
    ELSE Some([argv |-> <<installed_path, recent.option, recent.label>>,
               env |-> LaunchEnv(excluded_env_vars)])

\* None when nothing is spawned, else the subprocess.run call
open_vscode(installed_path, recent, excluded_env_vars) ==
    IF ~is_installed(installed_path) THEN None
    ELSE Some([argv |-> <<installed_path, recent.option, recent.uri>>,
               env |-> LaunchEnv(excluded_env_vars)])

(***************************************************************************)
(* The values the environment supplies.                                    *)
(***************************************************************************)
FolderAB == [folderUri |-> <<"/", "a", "b">>]
FileB == [fileUri |-> <<"/", "b">>, label |-> <<"A", "b">>]
WorkspaceA == [workspace |-> [configPath |-> <<"x", "/", "a">>]]
FolderSlash == [folderUri |-> <<"/", "b", "/">>]
Unrecognized == [other |-> <<"z">>]

MixedEntries == <<FolderAB, Unrecognized, FileB, WorkspaceA, FolderSlash>>
LegacyEntries == <<FileB, FolderAB>>

\* i written with the digits x, y, w: makes the uri of the i-th record unique
RECURSIVE Xs(_)
Xs(i) ==
    IF i = 0 THEN <<>>
    ELSE Xs(i \div 3) \o <<CASE i % 3 = 0 -> "x" [] i % 3 = 1 -> "y" [] OTHER -> "w">>

ManyLabel(i) ==
    CASE i % 4 = 0 -> <<"a", "b">>
      [] i % 4 = 1 -> <<"b", "a">>
      [] i % 4 = 2 -> <<"A">>
      [] OTHER -> <<"x", "a", "b">>
ManyRecord(i) ==
    CASE i % 3 = 0 -> [folderUri |-> <<"/">> \o Xs(i), label |-> ManyLabel(i)]
      [] i % 3 = 1 -> [fileUri |-> <<"/">> \o Xs(i), label |-> ManyLabel(i)]
      [] OTHER -> [workspace |-> [configPath |-> <<"/">> \o Xs(i)], label |-> ManyLabel(i)]
ManyEntries == [i \in 1..MaxEntries |-> ManyRecord(i)]

PrimaryStates ==
    {Absent, Unreadable, Holding(<<>>), Holding(MixedEntries), Holding(ManyEntries)}
LegacyStates == {Absent, Unreadable, Holding(LegacyEntries)}

Queries == {<<>>, <<"A">>, <<"z">>, <<"b", " ">>}
KeywordValues == {<<"c">>}
ExcludedEnvValues == {<<"LD_PRELOAD", ",", " ", "DISPLAY">>}
IncludeTypesValues == {<<"folder", ",", "file", ",", "workspace">>, <<"file">>, <<>>}
PreferTypeValues == {"", "workspace"}
TickSteps == {30}
LoadTimes == {0, 30}
\* an entry of a result list rendered before the current one
StrayPayload ==
    [uri |-> <<"/", "a">>, label |-> <<"a">>, icon |-> "file",
     option |-> "--file-uri", type |-> "file"]
InstalledPaths == {None, Some("/usr/bin/code")}

(***************************************************************************)
(* State.                                                                  *)
(***************************************************************************)
VARIABLES
    installed_path,     \* Code.installed_path
    keyword,            \* CodeExtension.keyword
    excluded_env_vars,  \* CodeExtension.excluded_env_vars
    include_types,      \* Code.include_types
    prefer_type,        \* CodeExtension.prefer_type
    cached_recents,     \* Code._cached_recents
    cache_timestamp,    \* Code._cache_timestamp
    now,                \* time.time()
    primary,            \* the file global_state_db names
    legacy,             \* the file storage_json names
    last,               \* what the latest step did
    cs,                 \* a command_score call of SpecScore
    pe,                 \* a parse_entry_paths call of SpecParse
    rk,                 \* a scoring loop of SpecRank
    th,                 \* the get_recents callers of SpecConc
    fs                  \* the file system and the Code() of SpecInit

vars == <<installed_path, keyword, excluded_env_vars, include_types, prefer_type,
          cached_recents, cache_timestamp, now, primary, legacy, last, cs, pe, rk, th, fs>>

\* last: the handler that ran (op); for a preference event the ids of the
\* preferences whose value it changed; for a query its argument, whether the
\* handler raised and the items it returned, whether it called get_recents,
\* the cache age (now - _cache_timestamp) that call saw, whether the call ran
\* the load, the store readers it invoked, whether it raised, the recents it
\* returned and how many of them were scored; for a selection the process
\* spawned.
Idle ==
    [op |-> "none", changed |-> {}, query |-> <<>>, raised |-> FALSE, items |-> <<>>,
     called |-> FALSE, age |-> 0, loaded |-> FALSE, reads |-> <<>>,
     get_raised |-> FALSE, recents |-> <<>>, scored |-> 0, spawned |-> None]

NoScore ==
    [string |-> <<>>, abbreviation |-> <<>>, aliases |-> <<>>, pc |-> "idle", result |-> 0]
NoParse == [pc |-> "idle"]
NoRank == [pc |-> "idle"]
NoThreads == [pc |-> "idle"]
NoFiles == [pc |-> "idle"]

\* the single item of lines 371-379
NotInstalledItem == [icon |-> "icon", on_enter |-> None]

Init ==
    /\ installed_path \in InstalledPaths
    /\ keyword = None
    /\ excluded_env_vars = None
    /\ include_types = None
    /\ prefer_type = None
    /\ cached_recents = None
    /\ cache_timestamp = 0
    /\ now = StartTime
    /\ primary \in PrimaryStates
    \* a resolved installation has found storage.json (lines 150-156)
    /\ legacy \in {l \in LegacyStates : is_installed(installed_path) => l.exists}
    /\ last = Idle
    /\ cs = NoScore
    /\ pe = NoParse /\ rk = NoRank /\ th = NoThreads /\ fs = NoFiles

(***************************************************************************)
(* The event listeners.  The host sends PreferencesEvent once, before any  *)
(* other event.                                                            *)
(***************************************************************************)
PreferencesEvent(code_kw, excluded, types, prefer) ==
    /\ keyword = None
    /\ keyword' = Some(code_kw)
    /\ excluded_env_vars' = Some(excluded)
    /\ include_types' = Some(SplitComma(types))
    /\ prefer_type' = Some(prefer)
    /\ last' = [Idle EXCEPT !.op = "preferences",
                            !.changed = {"code_kw", "excluded_env_vars", "include_types",
                                         "prefer_type"}]
    /\ UNCHANGED <<installed_path, cached_recents, cache_timestamp, now, primary, legacy, cs, pe, rk, th, fs>>

PreferencesUpdateEvent(id, new_value) ==
    /\ keyword # None
    /\ keyword' = IF id = "code_kw" THEN Some(new_value) ELSE keyword
    /\ excluded_env_vars' = IF id = "excluded_env_vars" THEN Some(new_value)
                            ELSE excluded_env_vars
    /\ include_types' = IF id = "include_types" THEN Some(SplitComma(new_value))
                        ELSE include_types
    /\ prefer_type' = IF id = "prefer_type" THEN Some(new_value) ELSE prefer_type
    /\ last' = [Idle EXCEPT !.op = "update",
                            !.changed = {i \in {id} :
                                <<keyword', excluded_env_vars', include_types', prefer_type'>>
                                # <<keyword, excluded_env_vars, include_types, prefer_type>>}]
    /\ UNCHANGED <<installed_path, cached_recents, cache_timestamp, now, primary, legacy, cs, pe, rk, th, fs>>

\* KeywordQueryEventListener.on_event; took is the time a load takes
KeywordQueryEvent(argument, took) ==
    /\ keyword # None
    /\ now + took <= StartTime + Horizon
    /\ took # 0 => /\ is_installed(installed_path)
                   /\ ~CacheValid(cached_recents, cache_timestamp, now)
    /\ IF ~is_installed(installed_path)
       THEN /\ last' = [Idle EXCEPT !.op = "query", !.query = argument,
                                    !.items = <<NotInstalledItem>>]
            /\ UNCHANGED <<cached_recents, cache_timestamp, now>>
       ELSE \E out \in {get_ext_result_items(argument, installed_path, primary, legacy,
                                              include_types, prefer_type, cached_recents,
                                              cache_timestamp, now, took)} :
               /\ cached_recents' = out.get.cache.recents
               /\ cache_timestamp' = out.get.cache.timestamp
               /\ now' = IF out.get.loaded THEN now + took ELSE now
               /\ last' = [op |-> "query", changed |-> {}, query |-> argument,
                           raised |-> out.raised, items |-> out.items, called |-> TRUE,
                           age |-> now - cache_timestamp,
                           loaded |-> out.get.loaded, reads |-> out.get.reads,
                           get_raised |-> out.get.raised,
                           recents |-> out.get.value, scored |-> out.scored,
                           spawned |-> None]
    /\ UNCHANGED <<installed_path, keyword, excluded_env_vars, include_types, prefer_type,
                   primary, legacy, cs, pe, rk, th, fs>>

\* the entries a selection can hand back: that of the first or the last item
\* on screen, or one of an earlier result list
Payloads ==
    {last.items[i].on_enter[1] :
        i \in {j \in {1, Len(last.items)} \cap DOMAIN last.items :
                    last.items[j].on_enter # None}}
        \cup {StrayPayload}

\* ItemEnterEventListener.on_event
ItemEnterEvent(recent) ==
    /\ keyword # None
    /\ last' = [Idle EXCEPT !.op = "select",
                            !.spawned = open_vscode(installed_path, recent, excluded_env_vars)]
    /\ UNCHANGED <<installed_path, keyword, excluded_env_vars, include_types, prefer_type,
                   cached_recents, cache_timestamp, now, primary, legacy, cs, pe, rk, th, fs>>

(***************************************************************************)
(* The environment: the clock and the two files.                           *)
(***************************************************************************)
Tick(d) ==
    /\ now + d <= StartTime + Horizon
    /\ now' = now + d
    /\ last' = Idle
    /\ UNCHANGED <<installed_path, keyword, excluded_env_vars, include_types, prefer_type,
                   cached_recents, cache_timestamp, primary, legacy, cs, pe, rk, th, fs>>

WritePrimary(p) ==
    /\ primary # p
    /\ primary' = p
    /\ last' = Idle
    /\ UNCHANGED <<installed_path, keyword, excluded_env_vars, include_types, prefer_type,
                   cached_recents, cache_timestamp, now, legacy, cs, pe, rk, th, fs>>

WriteLegacy(l) ==
    /\ legacy # l
    /\ legacy' = l
    /\ last' = Idle
    /\ UNCHANGED <<installed_path, keyword, excluded_env_vars, include_types, prefer_type,
                   cached_recents, cache_timestamp, now, primary, cs, pe, rk, th, fs>>

Next ==
    \/ \E k \in KeywordValues, e \in ExcludedEnvValues, t \in IncludeTypesValues,
          p \in PreferTypeValues : PreferencesEvent(k, e, t, p)
    \/ \E k \in KeywordValues : PreferencesUpdateEvent("code_kw", k)
    \/ \E e \in ExcludedEnvValues : PreferencesUpdateEvent("excluded_env_vars", e)
    \/ \E t \in IncludeTypesValues : PreferencesUpdateEvent("include_types", t)
    \/ \E p \in PreferTypeValues : PreferencesUpdateEvent("prefer_type", p)
    \/ \E q \in Queries, took \in LoadTimes : KeywordQueryEvent(q, took)
    \/ \E r \in Payloads : ItemEnterEvent(r)
    \/ \E d \in TickSteps : Tick(d)
    \/ \E p \in PrimaryStates : WritePrimary(p)
    \/ \E l \in LegacyStates : WriteLegacy(l)

Spec == Init /\ [][Next]_vars

(***************************************************************************)
(* SpecScore: command_score applied to every candidate string, query       *)
(* string and alias list of the bounded sets.                              *)
(***************************************************************************)
Strs(chars, n) == UNION {[1..k -> chars] : k \in 0..n}
\* the aliases argument: left out, one alias, two aliases
AliasLists == {<<>>, <<<<"b">>>>, <<<<"a">>, <<"b">>>>}

InitScore ==
    /\ installed_path = None
    /\ keyword = None
    /\ excluded_env_vars = None
    /\ include_types = None
    /\ prefer_type = None
    /\ cached_recents = None
    /\ cache_timestamp = 0
    /\ now = StartTime
    /\ primary = Absent
    /\ legacy = Absent
    /\ last = Idle
    /\ \E s \in Strs(StrChars, MaxStrLen), q \in Strs(AbbrChars, MaxAbbrLen),
          al \in AliasLists :
          cs = [string |-> s, abbreviation |-> q, aliases |-> al, pc |-> "call",
                result |-> 0]
    /\ pe = NoParse /\ rk = NoRank /\ th = NoThreads /\ fs = NoFiles

ScoreCall ==
    /\ cs.pc = "call"
    /\ cs' = [cs EXCEPT !.pc = "done",
                        !.result = command_score(cs.string, cs.abbreviation, cs.aliases)]
    /\ UNCHANGED <<installed_path, keyword, excluded_env_vars, include_types, prefer_type,
                   cached_recents, cache_timestamp, now, primary, legacy, last, pe, rk, th, fs>>

NextScore == ScoreCall

SpecScore == InitScore /\ [][NextScore]_vars

(***************************************************************************)
(* SpecParse: parse_entry_paths applied to every batch of at most MaxBatch *)
(* raw records and every include_types list of the bounded sets.  The      *)
(* other variables keep the values of an extension that has not started.   *)
(***************************************************************************)
NotStarted ==
    /\ installed_path = None
    /\ keyword = None
    /\ excluded_env_vars = None
    /\ include_types = None
    /\ prefer_type = None
    /\ cached_recents = None
    /\ cache_timestamp = 0
    /\ now = StartTime
    /\ primary = Absent
    /\ legacy = Absent
    /\ last = Idle

pipeline ==
    <<installed_path, keyword, excluded_env_vars, include_types, prefer_type,
      cached_recents, cache_timestamp, now, primary, legacy, last>>

\* the location strings and the upstream labels of the raw records
ParseUris == {<<>>, <<"a">>, <<"/", "a">>, <<"a", "/">>}
ParseLabels == {<<>>, <<"a">>}
\* a workspace record that has no configPath
BadWorkspace == [workspace |-> [id |-> <<"x">>]]
RawRecords ==
    {[folderUri |-> u] : u \in ParseUris}
        \cup {[folderUri |-> u, label |-> l] : u \in ParseUris, l \in ParseLabels}
        \cup {[fileUri |-> u] : u \in ParseUris}
        \cup {[fileUri |-> u, label |-> l] : u \in ParseUris, l \in ParseLabels}
        \cup {[workspace |-> [configPath |-> u]] : u \in ParseUris}
        \cup {[workspace |-> [configPath |-> u], label |-> l] :
                 u \in ParseUris, l \in ParseLabels}
        \cup {BadWorkspace, Unrecognized}
Batches == UNION {[1..k -> RawRecords] : k \in 0..MaxBatch}

InitParse ==
    /\ NotStarted
    /\ \E b \in Batches, t \in IncludeTypesValues :
          pe = [pc |-> "call", entries |-> b, include_types |-> SplitComma(t),
                result |-> Return(<<>>)]
    /\ cs = NoScore /\ rk = NoRank /\ th = NoThreads /\ fs = NoFiles

ParseCall ==
    /\ pe.pc = "call"
    /\ pe' = [pe EXCEPT !.pc = "done",
                        !.result = parse_entry_paths(pe.entries, Some(pe.include_types))]
    /\ UNCHANGED <<pipeline, cs, rk, th, fs>>

NextParse == ParseCall

SpecParse == InitParse /\ [][NextParse]_vars

(***************************************************************************)
(* SpecRank: the scoring loop and the ranking of get_ext_result_items      *)
(* (lines 323-363) applied to every list of at most MaxRecents entries,    *)
(* every query and every prefer_type of the bounded sets.  For the query   *)
(* "abcde" the label "xa b c/d e" scores 0.17 * 0.9 * 0.9 * 0.8 * 0.9 =    *)
(* 0.0991, and 0.1011 once boosted; for "ab" the label "xaxb" scores       *)
(* 0.17 * 0.17 * 0.999 = 0.0289.                                           *)
(***************************************************************************)
LongLabel == <<"x", "a", " ", "b", " ", "c", "/", "d", " ", "e">>
RankEntries ==
    {[uri |-> <<"/", "w">>, label |-> LongLabel, icon |-> "workspace",
      option |-> "--file-uri", type |-> "workspace"],
     [uri |-> <<"/", "f">>, label |-> LongLabel, icon |-> "file",
      option |-> "--file-uri", type |-> "file"],
     [uri |-> <<"/", "a", "b">>, label |-> <<"x", "a", "x", "b">>, icon |-> "icon",
      option |-> "--folder-uri", type |-> "folder"],
     [uri |-> <<"/", "x">>, label |-> <<"x", "a", "x", "b">>, icon |-> "file",
      option |-> "--file-uri", type |-> "file"],
     [uri |-> <<"/", "z", "z">>, label |-> <<"a", "b">>, icon |-> "icon",
      option |-> "--folder-uri", type |-> "folder"]}
RankQueries == {<<>>, <<"a", "b">>, <<"A", "B">>, <<"a", "b", "c", "d", "e">>}
RankPreferTypes == {None, Some(""), Some("workspace"), Some("file")}

InitRank ==
    /\ NotStarted
    /\ \E r \in UNION {[1..k -> RankEntries] : k \in 0..MaxRecents}, q \in RankQueries,
          p \in RankPreferTypes :
          rk = [pc |-> "call", recents |-> r, query |-> q, prefer_type |-> p,
                raised |-> FALSE, data |-> <<>>, items |-> <<>>]
    /\ cs = NoScore /\ pe = NoParse /\ th = NoThreads /\ fs = NoFiles

RankCall ==
    /\ rk.pc = "call"
    /\ \E data \in {Collect(rk.recents, Lower(rk.query), rk.prefer_type, <<>>, 0)} :
          rk' = [rk EXCEPT !.pc = "done",
                           !.raised = data.raised,
                           !.data = data.value,
                           !.items = Rank(rk.recents, Lower(rk.query), rk.prefer_type).value]
    /\ UNCHANGED <<pipeline, cs, pe, th, fs>>

NextRank == RankCall

SpecRank == InitRank /\ [][NextRank]_vars

(***************************************************************************)
(* SpecConc: NumCallers threads inside Code.get_recents at the same time,  *)
(* on the class fields _cached_recents and _cache_timestamp.  The method   *)
(* takes no lock, so the steps of the callers interleave freely: the cache *)
(* test (lines 180-185), the load (lines 188-204), and the two assignments *)
(* of lines 207 and 208.  The clock stands still.                          *)
(***************************************************************************)
Callers == 1..NumCallers
\* a list an earlier load cached
OldRecents == <<StrayPayload>>

InitConc ==
    /\ installed_path = Some("/usr/bin/code")
    /\ keyword = Some(<<"c">>)
    /\ excluded_env_vars = None
    /\ \E t \in IncludeTypesValues : include_types = Some(SplitComma(t))
    /\ prefer_type = None
    /\ \/ cached_recents = None /\ cache_timestamp = 0
       \/ /\ cached_recents = Some(OldRecents)
          /\ cache_timestamp \in {StartTime - _cache_duration, StartTime - 1}
    /\ now = StartTime
    /\ primary \in PrimaryStates
    /\ legacy \in {l \in LegacyStates : l.exists}
    /\ last = Idle
    /\ th = [t \in Callers |-> [pc |-> "check", loaded |-> FALSE, out |-> Return(<<>>)]]
    /\ cs = NoScore /\ pe = NoParse /\ rk = NoRank /\ fs = NoFiles

\* lines 179-185
CheckCache(t) ==
    /\ th[t].pc = "check"
    /\ th' = IF CacheValid(cached_recents, cache_timestamp, now)
             THEN [th EXCEPT ![t].pc = "done", ![t].out = Return(cached_recents[1])]
             ELSE [th EXCEPT ![t].pc = "load"]
    /\ UNCHANGED <<pipeline, cs, pe, rk, fs>>

\* lines 188-204
LoadStores(t) ==
    /\ th[t].pc = "load"
    /\ \E load \in {Load(installed_path, primary, legacy, include_types)} :
          th' = [th EXCEPT ![t].pc = IF load.raised THEN "done" ELSE "store",
                           ![t].loaded = TRUE,
                           ![t].out = [raised |-> load.raised, value |-> load.value]]
    /\ UNCHANGED <<pipeline, cs, pe, rk, fs>>

\* line 207
StoreRecents(t) ==
    /\ th[t].pc = "store"
    /\ cached_recents' = Some(th[t].out.value)
    /\ th' = [th EXCEPT ![t].pc = "stamp"]
    /\ UNCHANGED <<installed_path, keyword, excluded_env_vars, include_types, prefer_type,
                   cache_timestamp, now, primary, legacy, last, cs, pe, rk, fs>>

\* lines 208-210
StoreTimestamp(t) ==
    /\ th[t].pc = "stamp"
    /\ cache_timestamp' = now
    /\ th' = [th EXCEPT ![t].pc = "done"]
    /\ UNCHANGED <<installed_path, keyword, excluded_env_vars, include_types, prefer_type,
                   cached_recents, now, primary, legacy, last, cs, pe, rk, fs>>

NextConc ==
    \/ \E t \in Callers : CheckCache(t)
    \/ \E t \in Callers : LoadStores(t)
    \/ \E t \in Callers : StoreRecents(t)
    \/ \E t \in Callers : StoreTimestamp(t)

SpecConc == InitConc /\ [][NextConc]_vars

(***************************************************************************)
(* SpecInit: Code.__init__ (lines 126-172) run on every file system of the *)
(* bounded set.  A path is the sequence of its components; fs.exists is    *)
(* the set of the paths for which pathlib's exists() is true.              *)
(***************************************************************************)
path_dirs == <<"/usr/bin", "/bin", "/snap/bin">>
variants == <<"Code", "Codium">>

\* variant.lower()
LowerVariant(variant) == IF variant = "Code" THEN "code" ELSE "codium"
\* lines 139-142
VariantConfig(variant) == IF variant = "Codium" THEN "VSCodium" ELSE variant
\* pathlib.Path.home() / ".config" / variant_config
ConfigPath(variant) == <<"~", ".config", VariantConfig(variant)>>
StorageJson(config_path) == config_path \o <<"User", "globalStorage", "storage.json">>
StateVscdb(config_path) == config_path \o <<"User", "globalStorage", "state.vscdb">>

Unresolved ==
    [installed_path |-> None, config_path |-> None, global_state_db |-> None,
     storage_json |-> None]

\* the two nested loops of lines 135-170, from the d-th directory and the
\* v-th variant on
RECURSIVE Locate(_, _, _)
Locate(exists, d, v) ==
    IF d > Len(path_dirs) THEN Unresolved
    ELSE IF v > Len(variants) THEN Locate(exists, d + 1, 1)
    ELSE LET installed == <<path_dirs[d], LowerVariant(variants[v])>>
             config_path == ConfigPath(variants[v])
         IN IF installed \notin exists THEN Locate(exists, d, v + 1)
            ELSE IF /\ installed \in exists
                    /\ config_path \in exists
                    /\ StorageJson(config_path) \in exists
            THEN [installed_path |-> Some(installed), config_path |-> Some(config_path),
                  global_state_db |-> Some(StateVscdb(config_path)),
                  storage_json |-> Some(StorageJson(config_path))]
            ELSE Locate(exists, d, v + 1)

Executables ==
    {<<path_dirs[d], LowerVariant(variants[v])>> : d \in DOMAIN path_dirs, v \in DOMAIN variants}
ConfigPaths == {ConfigPath(variants[v]) : v \in DOMAIN variants}
\* the file systems: a file exists only in a directory that exists
FileSystems ==
    {x \cup c \cup f :
        x \in SUBSET Executables,
        c \in SUBSET ConfigPaths,
        f \in SUBSET ({StorageJson(k) : k \in ConfigPaths}
                          \cup {StateVscdb(k) : k \in ConfigPaths})}

InitInit ==
    /\ NotStarted
    /\ \E e \in FileSystems :
          /\ \A k \in ConfigPaths :
                (StorageJson(k) \in e \/ StateVscdb(k) \in e) => k \in e
          /\ fs = [pc |-> "new", exists |-> e, code |-> Unresolved]
    /\ cs = NoScore /\ pe = NoParse /\ rk = NoRank /\ th = NoThreads

\* code = Code(); installed_path is kept here as the path it was given
Construct ==
    /\ fs.pc = "new"
    /\ \E code \in {Locate(fs.exists, 1, 1)} :
          /\ fs' = [fs EXCEPT !.pc = "done", !.code = code]
          /\ installed_path' = code.installed_path
    /\ UNCHANGED <<keyword, excluded_env_vars, include_types, prefer_type, cached_recents,
                   cache_timestamp, now, primary, legacy, last, cs, pe, rk, th>>

NextInit == Construct

SpecInit == InitInit /\ [][NextInit]_vars

(***************************************************************************)
(* Claims.  A query step is a step that leaves last.op = "query" with      *)
(* last.called: the handler reached get_recents.                           *)
(***************************************************************************)
Queried == last.op = "query" /\ last.called

\* C1: after a successful load, every get_recents call made while
\* now - _cache_timestamp < 60 returns the cached list and invokes no store
\* reader, whatever list the load produced.  (now >= StartTime > 60 and the
\* timestamp is 0 until a load succeeds, so an age below 60 implies a load.)
C1_FreshCacheIsServed ==
    (Queried /\ last.age < _cache_duration) =>
        /\ ~last.loaded
        /\ last.reads = <<>>
        /\ ~last.get_raised
        /\ cached_recents = Some(last.recents)

\* C2: every get_recents call made when now - _cache_timestamp >= 60 runs the
\* load again, and when the load succeeds the cached list and the timestamp
\* are both those of this load; the two fields never change otherwise, so no
\* state pairs a new list with an old timestamp or the reverse.
C2_ExpiredCacheReloads ==
    [][/\ (Queried' /\ now - cache_timestamp >= _cache_duration) => last'.loaded
       /\ (Queried' /\ last'.loaded /\ ~last'.get_raised) =>
              /\ cached_recents' = Some(last'.recents)
              /\ cache_timestamp' = now'
       /\ (cached_recents' # cached_recents \/ cache_timestamp' # cache_timestamp) =>
              /\ Queried' /\ last'.loaded /\ ~last'.get_raised
              /\ cached_recents' = Some(last'.recents)
              /\ cache_timestamp' = now']_vars

\* a reload: the call saw a cache that an earlier load had stamped and that
\* was 60 s old or older, and loaded again with success
C2_Witness ==
    /\ Queried /\ last.loaded /\ ~last.get_raised
    /\ last.age >= _cache_duration /\ last.age < StartTime
    /\ Len(last.recents) > 0
    /\ cache_timestamp = now

\* C3: when the load of a get_recents call fails, the call raises to its
\* caller (no entries are returned in place of the error) and the cached
\* list and timestamp are what they were before the call.
C3_FailedLoadKeepsCache ==
    [][(Queried' /\ last'.loaded /\ last'.reads # <<>>
            /\ (IF last'.reads[Len(last'.reads)] = "legacy"
                 THEN ~legacy.readable
                 ELSE ~primary.readable /\ ~legacy.exists)) =>
          /\ last'.get_raised
          /\ last'.recents = <<>>
          /\ last'.raised /\ last'.items = <<>>
          /\ cached_recents' = cached_recents
          /\ cache_timestamp' = cache_timestamp]_vars

\* a failed load while entries of an earlier load are still cached
C3_Witness ==
    /\ Queried /\ last.get_raised
    /\ cached_recents # None /\ Len(cached_recents[1]) > 0

\* C4: every entry get_ext_result_items hands to command_score has a type
\* that is in include_types as configured at that query.
C4_ScoredTypesAreIncluded ==
    Queried =>
        \A i \in 1..last.scored :
            InList(<<last.recents[i].type>>, include_types[1])

\* C5: the first query after a PreferencesUpdateEvent that changed
\* include_types or prefer_type is evaluated with the new values: it returns
\* what ranking a load of the stores' current entries under the new
\* include_types and prefer_type returns, however fresh the cache is.
C5_UpdateAppliesToNextQuery ==
    [][(/\ last.op = "update"
        /\ last.changed \cap {"include_types", "prefer_type"} # {}
        /\ Queried'
        /\ ~Load(installed_path, primary, legacy, include_types).raised) =>
          \E fresh \in {Rank(Load(installed_path, primary, legacy, include_types).value,
                              Lower(last'.query), prefer_type)} :
              /\ last'.raised = fresh.raised
              /\ last'.items = fresh.value]_vars

\* the entry the i-th returned item carries, and where get_recents had it
Payload(i) == last.items[i].on_enter[1]
PositionOf(recent) == CHOOSE k \in 1..Len(last.recents) : last.recents[k] = recent
\* the candidate score of line 344 for an entry under the last query
CandidateScore(recent) ==
    Max(BoostedLabelScore(recent, Lower(last.query), prefer_type),
        command_score(recent.uri, Lower(last.query), <<>>))

\* C6: the list get_ext_result_items returns has at most 15 items, is in
\* non-increasing order of candidate score, and entries of equal candidate
\* score keep the relative order they have in the list get_recents returned.
C6_RankedStableTop15 ==
    (Queried /\ ~last.raised) =>
        \E value \in {[i \in 1..Len(last.items) |-> CandidateScore(Payload(i))]} :
        \E position \in {[i \in 1..Len(last.items) |-> PositionOf(Payload(i))]} :
            /\ Len(last.items) <= ResultLimit
            /\ \A i \in 1..Len(last.items) : InList(Payload(i), last.recents)
            /\ \A i, j \in 1..Len(last.items) :
                  i < j => /\ value[i] >= value[j]
                           /\ value[i] = value[j] => position[i] < position[j]

\* more than 15 candidates, truncated, with a tie and a strict descent
C6_Witness ==
    /\ Queried /\ ~last.raised
    /\ Len(last.recents) > ResultLimit
    /\ Len(last.items) = ResultLimit
    /\ \E i, j \in 1..Len(last.items) :
          /\ i < j
          /\ CandidateScore(Payload(i)) = CandidateScore(Payload(j))
    /\ \E i, j \in 1..Len(last.items) :
          /\ PositionOf(Payload(i)) > PositionOf(Payload(j))
          /\ CandidateScore(Payload(i)) > CandidateScore(Payload(j))

\* C7: when get_recents raises during a query, the query handler returns an
\* empty or error result to the host; no exception leaves the handler.
C7_LoadFailureIsRendered ==
    (Queried /\ last.get_raised) => ~last.raised

\* C8: with installed_path None no query and no selection runs the pipeline:
\* a query returns the single 'not installed' item without calling
\* get_recents or reading a store, the cache stays as constructed, and a
\* selection spawns no process.
C8_NotInstalledShortCircuits ==
    installed_path = None =>
        /\ cached_recents = None /\ cache_timestamp = 0
        /\ ~last.called /\ ~last.loaded /\ last.reads = <<>> /\ ~last.raised
        /\ last.op = "query" => last.items = <<NotInstalledItem>>
        /\ last.spawned = None

\* a query answered on an unresolved installation
C8_Witness ==
    /\ installed_path = None
    /\ last.op = "query"
    /\ last.items = <<NotInstalledItem>>

\* q is an in-order subsequence of s
RECURSIVE IsSubsequence(_, _)
IsSubsequence(q, s) ==
    IF Len(q) = 0 THEN TRUE
    ELSE IF Len(s) = 0 THEN FALSE
    ELSE IF Head(q) = Head(s) THEN IsSubsequence(Tail(q), Tail(s))
    ELSE IsSubsequence(q, Tail(s))

\* C9: command_score (no aliases) returns 0 exactly when the query is not a
\* case-insensitive in-order subsequence of the candidate, and a value
\* greater than 0 whenever it is one.
C9_ZeroIffNoSubsequence ==
    (cs.pc = "done" /\ cs.aliases = <<>>) =>
        IF IsSubsequence(Lower(cs.abbreviation), Lower(cs.string))
        THEN cs.result > 0
        ELSE cs.result = 0

\* the candidate score of an entry under the empty query: both scores are
\* the base case of score(), 1 for an empty string and 0.99 otherwise
EmptyQueryScore(recent) ==
    Max(Mul(IF recent.label = <<>> THEN SCORE_CONTINUE_MATCH ELSE SCORE_QUERY_CONSUMED,
            IF prefer_type # None /\ prefer_type[1] # "" /\ recent.type = prefer_type[1]
            THEN PREFER_BOOST ELSE ONE),
        IF recent.uri = <<>> THEN SCORE_CONTINUE_MATCH ELSE SCORE_QUERY_CONSUMED)
EmptyQueried == Queried /\ ~last.get_raised /\ Lower(last.query) = <<>>
Shown == IF Len(last.recents) < ResultLimit THEN Len(last.recents) ELSE ResultLimit

\* C10 as claimed: for an empty query the result is the first min(15, n)
\* entries in source order, for every prefer_type.
C10_EmptyQuerySourceOrder ==
    EmptyQueried =>
        /\ ~last.raised
        /\ last.items = [i \in 1..Shown |-> Item(last.recents[i])]

\* C10 as amended: for an empty query every entry passes the threshold and
\* min(15, n) entries are returned, ordered by candidate score (an entry of
\* the preferred type 0.99 * 1.02, or 1.02 with an empty label; any other
\* entry 0.99, or 1 with an empty label or location), ties in source order,
\* no entry left out that goes ahead of one returned; so they are the first
\* min(15, n) entries in source order whenever all entries score the same.
C10_EmptyQueryOrder ==
    EmptyQueried =>
        \E value \in {[k \in 1..Len(last.recents) |-> EmptyQueryScore(last.recents[k])]} :
        \E position \in {[i \in 1..Len(last.items) |-> PositionOf(Payload(i))]} :
            /\ ~last.raised
            /\ Len(last.items) = Shown
            /\ \A i \in 1..Len(last.items) : InList(Payload(i), last.recents)
            /\ \A i, j \in 1..Len(last.items) :
                  i < j => \/ value[position[i]] > value[position[j]]
                           \/ /\ value[position[i]] = value[position[j]]
                              /\ position[i] < position[j]
            /\ \A k \in 1..Len(last.recents), i \in 1..Len(last.items) :
                  (\A j \in 1..Len(last.items) : position[j] # k) =>
                      \/ value[position[i]] > value[k]
                      \/ value[position[i]] = value[k] /\ position[i] < k
            /\ (\A k \in 1..Len(last.recents) : value[k] = value[1]) =>
                  last.items = [i \in 1..Shown |-> Item(last.recents[i])]

\* an empty query over more than 15 entries of several types, one type
\* preferred, answered out of source order
C10_Witness ==
    /\ EmptyQueried
    /\ Len(last.recents) > ResultLimit
    /\ prefer_type = Some("workspace")
    /\ last.items # [i \in 1..Shown |-> Item(last.recents[i])]

\* C11: every entry parse_entry_paths returns, for every raw record of a
\* recognised shape, with or without an upstream label and for every
\* location string, has a non-empty label.
C11_LabelNeverEmpty ==
    (pe.pc = "done" /\ ~pe.result.raised) =>
        \A i \in 1..Len(pe.result.value) : pe.result.value[i].label # <<>>

\* a raw record of one of the three shapes
Recognized(path) ==
    \/ Has(path, "folderUri")
    \/ Has(path, "fileUri")
    \/ Has(path, "workspace") /\ Has(path.workspace, "configPath")

\* C12: parse_entry_paths never raises because of one record: every record
\* that is not of one of the three shapes (folderUri; fileUri; workspace
\* with a nested configPath) is skipped, and the others are normalised and
\* returned, those of an included type, in their source order.
C12_BadRecordIsSkipped ==
    pe.pc = "done" =>
        \E good \in {SelectSeq(pe.entries, Recognized)} :
        \E entries \in {[i \in 1..Len(good) |-> ParseOne(good[i])]} :
            /\ ~pe.result.raised
            /\ pe.result.value =
                   SelectSeq(entries, LAMBDA e : InList(<<e.type>>, pe.include_types))

\* C13: command_score returns a number and never raises, for every
\* candidate string, query string and alias list, a query with a space or
\* with characters found only in the appended text included: every index
\* that reads the original string (line 88) is less than its length.
C13_NeverRaises ==
    cs.pc = "done" => cs.result # IndexError

\* a get_recents call that ran the load, found the primary store and had
\* the read of it raise (the stores and include_types are those of the call:
\* a query step leaves them alone and every other step resets last)
PrimaryReadRaised ==
    /\ Queried /\ last.loaded
    /\ primary.exists
    /\ get_recents_global_state(primary, include_types).raised

\* C14 as claimed: when the primary store exists and reading it raises, the
\* load returns and caches the legacy store's normalised entries with no
\* error if the legacy store exists, and raises if it does not.
C14_PrimaryErrorFallsBack ==
    PrimaryReadRaised =>
        IF legacy.exists
        THEN /\ ~last.get_raised
             /\ last.reads = <<"global_state", "legacy">>
             /\ Return(last.recents) = parse_entry_paths(legacy.entries, include_types)
             /\ cached_recents = Some(last.recents)
             /\ cache_timestamp = now
        ELSE /\ last.get_raised
             /\ last.reads = <<"global_state">>

\* C14 as amended: when the primary store exists and reading it raises,
\* then if the legacy store exists the load reads it, and returns and caches
\* its normalised, type-filtered entries with no error when that read
\* succeeds, and raises leaving the cache as it was when that read raises as
\* well; if the legacy store does not exist the load raises without reading
\* it and leaves the cache as it was.
C14_PrimaryErrorReadsLegacy ==
    [][PrimaryReadRaised' =>
          IF legacy.exists
          THEN /\ last'.reads = <<"global_state", "legacy">>
               /\ last'.get_raised = get_recents_legacy(legacy, include_types).raised
               /\ IF get_recents_legacy(legacy, include_types).raised
                  THEN /\ cached_recents' = cached_recents
                       /\ cache_timestamp' = cache_timestamp
                  ELSE /\ last'.recents = get_recents_legacy(legacy, include_types).value
                       /\ cached_recents' = Some(last'.recents)
                       /\ cache_timestamp' = now'
          ELSE /\ last'.get_raised
               /\ last'.reads = <<"global_state">>
               /\ cached_recents' = cached_recents
               /\ cache_timestamp' = cache_timestamp]_vars

\* the read of the primary store raised and the entries of storage.json
\* were returned and cached
C14_Witness ==
    /\ PrimaryReadRaised
    /\ legacy.exists /\ ~last.get_raised
    /\ last.reads = <<"global_state", "legacy">>
    /\ Len(last.recents) > 0
    /\ cached_recents = Some(last.recents)

\* C15: a load reads the legacy store only if the primary store produced no
\* entries (it is absent, its read raised, or its entries array is empty)
\* and the legacy file exists; whenever the entries array of the primary
\* store is not empty the legacy store is not read and the result is that of
\* the primary store alone, whatever include_types is.
C15_LegacyOnlyWithoutPrimaryEntries ==
    (Queried /\ last.loaded) =>
        /\ InList("legacy", last.reads) =>
              /\ legacy.exists
              /\ \/ ~primary.exists
                 \/ get_recents_global_state(primary, include_types).raised
                 \/ Len(primary.entries) = 0
        /\ (primary.exists /\ primary.readable /\ Len(primary.entries) > 0) =>
              /\ last.reads = <<"global_state">>
              /\ last.get_raised = get_recents_global_state(primary, include_types).raised
              /\ last.recents = get_recents_global_state(primary, include_types).value

\* the candidate value of the claim for an entry of the scoring loop:
\* max(label_score * (1.02 if prefer_type is set and is the entry's type,
\* else 1), location_score)
RankLabelScore(recent) == command_score(recent.label, Lower(rk.query), <<>>)
RankLocationScore(recent) == command_score(recent.uri, Lower(rk.query), <<>>)
RankValue(recent) ==
    Max(Mul(RankLabelScore(recent),
            IF rk.prefer_type # None /\ rk.prefer_type[1] # ""
                   /\ rk.prefer_type[1] = recent.type
            THEN PREFER_BOOST ELSE ONE),
        RankLocationScore(recent))

\* C16: the scoring loop keeps an entry exactly when its candidate value is
\* greater than 0.1, in source order, and records that value as its score;
\* every item returned carries an entry whose value is greater than 0.1.
C16_KeptIffAboveThreshold ==
    rk.pc = "done" =>
        \E kept \in {SelectSeq(rk.recents, LAMBDA r : RankValue(r) > THRESHOLD)} :
            /\ ~rk.raised
            /\ rk.data = [i \in 1..Len(kept) |->
                              [recent |-> kept[i], score |-> RankValue(kept[i])]]
            /\ \A i \in 1..Len(rk.items) :
                  /\ RankValue(rk.items[i].on_enter[1]) > THRESHOLD
                  /\ InList(rk.items[i].on_enter[1], kept)
            /\ Len(rk.items) = Len(kept)

\* two entries with the same label: one dropped with a value of 0.0991, the
\* other, of the preferred type, kept with 0.1011 by the boost alone
C16_Witness ==
    /\ rk.pc = "done"
    /\ Len(rk.recents) = 2 /\ Len(rk.data) = 1
    /\ \E i \in 1..2 :
          /\ rk.recents[i] # rk.data[1].recent
          /\ RankValue(rk.recents[i]) > 0
          /\ RankValue(rk.recents[i]) <= THRESHOLD
    /\ RankLabelScore(rk.data[1].recent) <= THRESHOLD
    /\ RankLocationScore(rk.data[1].recent) <= THRESHOLD
    /\ rk.data[1].score > THRESHOLD

\* C17: of the callers that run get_recents at the same time on an expired
\* or never loaded cache at most one performs the load, the others return
\* the entries it stored.  (A caller may load after another only when that
\* other's load raised or returned no entries, which leaves no usable
\* cache; so no two callers both load a non-empty list.)
C17_AtMostOneLoad ==
    \A t, u \in Callers :
        (/\ th[t].loaded /\ ~th[t].out.raised /\ Len(th[t].out.value) > 0
         /\ th[u].loaded /\ ~th[u].out.raised /\ Len(th[u].out.value) > 0) => t = u

\* the fixed table of the claim, and the location a raw record gives an
\* entry of a kind
OptionOf(kind) ==
    CASE kind = "folder" -> "--folder-uri"
      [] kind = "file" -> "--file-uri"
      [] kind = "workspace" -> "--file-uri"
IconOf(kind) ==
    CASE kind = "folder" -> "icon"
      [] kind = "file" -> "file"
      [] kind = "workspace" -> "workspace"
IsLocationOf(uri, kind, path) ==
    CASE kind = "folder" -> Has(path, "folderUri") /\ path.folderUri = uri
      [] kind = "file" -> Has(path, "fileUri") /\ path.fileUri = uri
      [] kind = "workspace" ->
            /\ Has(path, "workspace") /\ Has(path.workspace, "configPath")
            /\ path.workspace.configPath = uri
TableEntry(recent) ==
    /\ recent.type \in {"folder", "file", "workspace"}
    /\ recent.option = OptionOf(recent.type)
    /\ recent.icon = IconOf(recent.type)

\* C18: a selection on a resolved installation spawns the editor with
\* exactly [installed binary path, option, location] of the entry the
\* selected item carried; every entry a load returns has the option and the
\* icon the table gives its kind and the location of a raw record of that
\* kind in a store (for a workspace its workspace.configPath); every item
\* carries an entry of the list and shows the icon of its kind.
C18_LaunchesPayloadEntry ==
    [][/\ (last'.op = "select" /\ installed_path # None) =>
              \E r \in Payloads :
                  /\ TableEntry(r)
                  /\ last'.spawned # None
                  /\ last'.spawned[1].argv = <<installed_path, OptionOf(r.type), r.uri>>
       /\ (Queried' /\ last'.loaded /\ ~last'.get_raised) =>
              \A i \in 1..Len(last'.recents) :
                  /\ TableEntry(last'.recents[i])
                  /\ \E store \in {primary, legacy} : \E k \in 1..Len(store.entries) :
                        IsLocationOf(last'.recents[i].uri, last'.recents[i].type,
                                     store.entries[k])
       /\ (Queried' /\ ~last'.raised) =>
              \A i \in 1..Len(last'.items) :
                  /\ last'.items[i].on_enter # None
                  /\ InList(last'.items[i].on_enter[1], last'.recents)
                  /\ last'.items[i].icon = IconOf(last'.items[i].on_enter[1].type)]_vars

\* the workspace entry of the store, first on screen, was selected and the
\* editor launched with --file-uri and its configPath
C18_Witness ==
    /\ last.op = "select"
    /\ last.spawned = Some([argv |-> <<installed_path, "--file-uri",
                                       WorkspaceA.workspace.configPath>>,
                            env |-> LaunchEnv(excluded_env_vars)])

\* the combinations in the order of the claim: directories in order, the
\* variants within each
Combinations ==
    <<<<"/usr/bin", "Code">>, <<"/usr/bin", "Codium">>, <<"/bin", "Code">>,
      <<"/bin", "Codium">>, <<"/snap/bin", "Code">>, <<"/snap/bin", "Codium">>>>
\* the executable exists, the matching configuration directory exists and
\* holds the primary-store file
Satisfies(combination) ==
    /\ <<combination[1], LowerVariant(combination[2])>> \in fs.exists
    /\ ConfigPath(combination[2]) \in fs.exists
    /\ StateVscdb(ConfigPath(combination[2])) \in fs.exists

\* C19: Code.__init__ resolves to the first combination, directories in
\* order and variants within each, whose executable exists, whose
\* configuration directory exists and holds the primary-store file; it is
\* unresolved exactly when no combination satisfies the three; in every
\* resolved state the primary-store path of the descriptor names an
\* existing file.
C19_ResolvesFirstCombination ==
    fs.pc = "done" =>
        /\ installed_path = fs.code.installed_path
        /\ (installed_path = None) <=> (\A i \in DOMAIN Combinations : ~Satisfies(Combinations[i]))
        /\ \A i \in DOMAIN Combinations :
              (Satisfies(Combinations[i]) /\ \A j \in 1..(i - 1) : ~Satisfies(Combinations[j])) =>
                  /\ fs.code.installed_path =
                         Some(<<Combinations[i][1], LowerVariant(Combinations[i][2])>>)
                  /\ fs.code.config_path = Some(ConfigPath(Combinations[i][2]))
                  /\ fs.code.global_state_db =
                         Some(StateVscdb(ConfigPath(Combinations[i][2])))
        /\ installed_path # None => fs.code.global_state_db[1] \in fs.exists

====
